---- MODULE Spec2Model ----
(***************************************************************************)
(* The world-map shape of ratatui-widgets (canvas/map.rs): the resolution  *)
(* enum with its Display / FromStr / Default derives, the Map value, and   *)
(* Map::draw, the loop that feeds the points of a static table through a   *)
(* Painter.                                                                *)
(*                                                                         *)
(* World coordinates are integers here (the tables hold f64 pairs); the    *)
(* Painter and the two tables live in canvas/mod.rs and canvas/world.rs    *)
(* and are modelled from their contract.                                   *)
(***************************************************************************)
EXTENDS Integers, Sequences, FiniteSets

\* The largest number of draws the first painter receives.
MaxDraws == 2

(***************************************************************************)
(* Values                                                                  *)
(***************************************************************************)
None == <<>>
Some(v) == <<v>>

Ok(v) == [tag |-> "Ok", val |-> v]
Err(e) == [tag |-> "Err", val |-> e]

\* ratatui_core::style::Color: the colours used here. "Blue" only ever
\* comes from earlier content of a surface.
Color == {"Reset", "Red", "Blue"}
ColorDefault == "Reset"
\* A cell nothing has painted.
NoColor == "unpainted"

Low == "MapResolution::Low"
High == "MapResolution::High"
MapResolution == {Low, High}

MapResolutionDefaultHigh == High
\* #[default] on the Low variant
MapResolutionDefault == Low

to_stringLower(t) == IF t = Low THEN "low" ELSE "high"
\* #[derive(Display)]: the variant's name
to_string(t) == IF t = Low THEN "Low" ELSE "High"

from_strOrDefault(s) ==
    CASE s = "Low" -> Ok(Low)
      [] s = "High" -> Ok(High)
      [] OTHER -> Ok(MapResolutionDefault)
\* #[derive(EnumString)]: an exact, case-sensitive match on the variant's name
from_str(s) ==
    CASE s = "Low" -> Ok(Low)
      [] s = "High" -> Ok(High)
      [] OTHER -> Err("VariantNotFound")

\* #[derive(Default)] on Map: every field's default
MapDefault == [resolution |-> MapResolutionDefault, color |-> ColorDefault]

(***************************************************************************)
(* The static tables and the Painter                                       *)
(***************************************************************************)
\* The world spans x in -4..4 and y in -2..2 (for -180..180 and -90..90).
WORLD_LOW_RESOLUTION == << <<-1, 1>>, <<0, 0>>, <<2, -1>> >>
WORLD_HIGH_RESOLUTION ==
    << <<-4, 2>>, <<-1, 1>>, <<0, 0>>, <<1, -2>>, <<4, -2>> >>

\* The Painter's grid resolution (columns, rows).
Screens == {<<3, 2>>, <<2, 3>>}
XBounds == {<<-4, 4>>, <<-2, 2>>, <<0, 4>>}
YBounds == {<<-2, 2>>, <<-1, 1>>}
Painters(screen) ==
    [x_bounds : XBounds, y_bounds : YBounds, resolution : {screen}]

Cells(screen) == (0 .. screen[1] - 1) \X (0 .. screen[2] - 1)
\* The surfaces a painter starts from: blank, or holding earlier content.
Surfaces(screen) ==
    { [c \in Cells(screen) |-> NoColor],
      [c \in Cells(screen) |->
          IF (c[1] + c[2]) % 2 = 0 THEN "Blue"
          ELSE IF c[2] = 1 THEN "Red" ELSE NoColor] }

InBounds(p, x, y) ==
    /\ p.x_bounds[1] <= x /\ x <= p.x_bounds[2]
    /\ p.y_bounds[1] <= y /\ y <= p.y_bounds[2]

\* Painter::get_point: none outside the bounds, else the cell the point
\* scales to (the cast to usize truncates).
get_point(p, x, y) ==
    LET left == p.x_bounds[1]
        right == p.x_bounds[2]
        bottom == p.y_bounds[1]
        top == p.y_bounds[2]
    IN  IF x < left \/ x > right \/ y < bottom \/ y > top
        THEN None
        ELSE Some(<< ((x - left) * (p.resolution[1] - 1)) \div (right - left),
                     ((top - y) * (p.resolution[2] - 1)) \div (top - bottom) >>)

\* Painter::paint: the cell takes the colour, whatever it held.
paint(g, cell, color) == [g EXCEPT ![cell] = color]

(***************************************************************************)
(* State                                                                   *)
(***************************************************************************)
VARIABLES
    cfg,      \* cfg[p]: painter p's bounds and resolution
    init,     \* init[p]: painter p's surface before any draw
    grid,     \* grid[p]: painter p's surface
    hist,     \* hist[p]: the draws painter p has received, in order
    pc,       \* "idle", or "draw" inside Map::draw
    cur,      \* the painter borrowed by the running draw
    self,     \* the Map borrowed by the running draw
    iter,     \* the points the running loop has still to visit
    before,   \* the borrowed painter's surface when the draw began
    calls,    \* the Painter calls the running draw has made
    fromStr,  \* the last str::parse::<MapResolution>() call
    toStr,    \* the last MapResolution::to_string() call
    back,     \* the last parse of a displayed name
    res,      \* the last MapResolution constructed
    map       \* the last Map constructed

drawVars == <<cfg, init, grid, hist, pc, cur, self, iter, before, calls>>
valueVars == <<fromStr, toStr, back, res, map>>
vars == <<cfg, init, grid, hist, pc, cur, self, iter, before, calls,
          fromStr, toStr, back, res, map>>

PainterIds == {1, 2}
MapColors == {"Reset", "Red"}
Maps == [resolution : MapResolution, color : MapColors]

\* The strings handed to parse.
Names == {"", "Low", "High", "low", "high", "LOW", "HIGH", "Lo", "Highh",
          " Low", "Medium", "Default"}

(***************************************************************************)
(* Map::draw                                                               *)
(***************************************************************************)
dataSwapped(t) ==
    IF t = Low THEN WORLD_HIGH_RESOLUTION ELSE WORLD_LOW_RESOLUTION
\* A table that the first draw to finish drains.
dataOnce(t) ==
    IF \E p \in PainterIds : hist[p] # <<>>
    THEN <<>>
    ELSE IF t = Low THEN WORLD_LOW_RESOLUTION ELSE WORLD_HIGH_RESOLUTION
\* MapResolution::data
data(t) ==
    IF t = Low THEN WORLD_LOW_RESOLUTION ELSE WORLD_HIGH_RESOLUTION

GetPoint(pt, r) == [op |-> "get_point", at |-> pt, ret |-> r, color |-> NoColor]
Paint(cell, c) == [op |-> "paint", at |-> cell, ret |-> None, color |-> c]

\* Paints the colour, or erases it where the cell already holds it.
DrawPointToggle(p, m, pt) ==
    LET r == get_point(p, pt[1], pt[2])
    IN  IF r = None
        THEN << GetPoint(pt, r) >>
        ELSE << GetPoint(pt, r),
                Paint(r[1], IF grid[cur][r[1]] = m.color THEN NoColor ELSE m.color) >>
\* Paints only the cells nothing has painted yet.
DrawPointKeep(p, m, pt) ==
    LET r == get_point(p, pt[1], pt[2])
    IN  IF r = None \/ grid[cur][r[1]] # NoColor
        THEN << GetPoint(pt, r) >>
        ELSE << GetPoint(pt, r), Paint(r[1], m.color) >>
\* Paints a point outside the bounds on the first cell.
DrawPointClamp(p, m, pt) ==
    LET r == get_point(p, pt[1], pt[2])
    IN  IF r = None
        THEN << GetPoint(pt, r), Paint(<<0, 0>>, m.color) >>
        ELSE << GetPoint(pt, r), Paint(r[1], m.color) >>
\* Paints the default colour in place of the map's.
DrawPointReset(p, m, pt) ==
    LET r == get_point(p, pt[1], pt[2])
    IN  IF r = None
        THEN << GetPoint(pt, r) >>
        ELSE << GetPoint(pt, r), Paint(r[1], ColorDefault) >>
\* The loop's body: the Painter calls made for one point.
DrawPoint(p, m, pt) ==
    LET r == get_point(p, pt[1], pt[2])
    IN  IF r = None
        THEN << GetPoint(pt, r) >>
        ELSE << GetPoint(pt, r), Paint(r[1], m.color) >>

\* Leaves the loop at the first point get_point declines.
RestBreak(p, it) ==
    IF get_point(p, Head(it)[1], Head(it)[2]) = None THEN <<>> ELSE Tail(it)
\* The loop's advance: on to the next point, whatever get_point returned.
Rest(p, it) == Tail(it)

\* The surface after the Painter has served the calls.
RECURSIVE Serve(_, _)
Serve(g, cs) ==
    IF cs = <<>>
    THEN g
    ELSE Serve(IF Head(cs).op = "paint"
               THEN paint(g, Head(cs).at, Head(cs).color)
               ELSE g,
               Tail(cs))

Limit(p) == IF p = 1 THEN MaxDraws ELSE 1

\* context.draw(&map): the loop starts on the table of the map's resolution.
DrawBegin(p, m) ==
    /\ pc = "idle"
    /\ Len(hist[p]) < Limit(p)
    /\ pc' = "draw"
    /\ cur' = p
    /\ self' = m
    /\ iter' = data(m.resolution)
    /\ before' = grid[p]
    /\ calls' = <<>>
    /\ UNCHANGED <<cfg, init, grid, hist>>
    /\ UNCHANGED valueVars

\* One turn of the loop.
DrawStep ==
    /\ pc = "draw"
    /\ iter # <<>>
    /\ LET cs == DrawPoint(cfg[cur], self, Head(iter))
       IN  /\ calls' = calls \o cs
           /\ grid' = [grid EXCEPT ![cur] = Serve(@, cs)]
    /\ iter' = Rest(cfg[cur], iter)
    /\ UNCHANGED <<cfg, init, hist, pc, cur, self, before>>
    /\ UNCHANGED valueVars

\* The table is exhausted: draw returns.
DrawEnd ==
    /\ pc = "draw"
    /\ iter = <<>>
    /\ pc' = "idle"
    /\ hist' = [hist EXCEPT ![cur] =
                   Append(@, [shape |-> self, before |-> before,
                              after |-> grid[cur], calls |-> calls])]
    /\ UNCHANGED <<cfg, init, grid, cur, self, iter, before, calls>>
    /\ UNCHANGED valueVars

(***************************************************************************)
(* The value operations                                                    *)
(***************************************************************************)
\* s.parse::<MapResolution>()
FromStr(s) ==
    /\ fromStr' = Some([arg |-> s, ret |-> from_str(s)])
    /\ UNCHANGED <<toStr, back, res, map>>
    /\ UNCHANGED drawVars

\* t.to_string()
ToString(t) ==
    /\ toStr' = Some([arg |-> t, ret |-> to_string(t), from |-> None])
    /\ UNCHANGED <<fromStr, back, res, map>>
    /\ UNCHANGED drawVars

\* s.parse::<MapResolution>().map(|t| t.to_string())
ToStringParsed ==
    /\ fromStr # None
    /\ fromStr[1].ret.tag = "Ok"
    /\ toStr' = Some([arg |-> fromStr[1].ret.val,
                      ret |-> to_string(fromStr[1].ret.val),
                      from |-> fromStr])
    /\ UNCHANGED <<fromStr, back, res, map>>
    /\ UNCHANGED drawVars

\* The displayed name, parsed again.
Reparse ==
    /\ toStr # None
    /\ back' = Some([shown |-> toStr[1], ret |-> from_str(toStr[1].ret)])
    /\ UNCHANGED <<fromStr, toStr, res, map>>
    /\ UNCHANGED drawVars

\* MapResolution::default()
ResolutionDefault ==
    /\ res' = Some([how |-> "default", value |-> MapResolutionDefault])
    /\ UNCHANGED <<fromStr, toStr, back, map>>
    /\ UNCHANGED drawVars

\* Map::default()
NewDefault ==
    /\ map' = Some([how |-> "default", value |-> MapDefault])
    /\ UNCHANGED <<fromStr, toStr, back, res>>
    /\ UNCHANGED drawVars

\* Map { resolution: t, ..Default::default() }
NewWithResolution(t) ==
    /\ map' = Some([how |-> "update", value |-> [MapDefault EXCEPT !.resolution = t]])
    /\ UNCHANGED <<fromStr, toStr, back, res>>
    /\ UNCHANGED drawVars

(***************************************************************************)
(* Specifications                                                          *)
(***************************************************************************)
ValueInit ==
    /\ fromStr = None
    /\ toStr = None
    /\ back = None
    /\ res = None
    /\ map = None

\* Two painters of one screen size and one first surface, each with its bounds.
Init ==
    /\ \E screen \in Screens :
          /\ cfg \in [PainterIds -> Painters(screen)]
          /\ \E s \in Surfaces(screen) : init = [p \in PainterIds |-> s]
    /\ grid = init
    /\ hist = [p \in PainterIds |-> <<>>]
    /\ pc = "idle"
    /\ cur = 1
    /\ self = MapDefault
    /\ iter = <<>>
    /\ before = init[1]
    /\ calls = <<>>
    /\ ValueInit

Next ==
    \/ \E p \in PainterIds, m \in Maps : DrawBegin(p, m)
    \/ DrawStep
    \/ DrawEnd

Spec == Init /\ [][Next]_vars

\* The value operations alone, the painters left as constructed.
InitValues ==
    /\ cfg = [p \in PainterIds |->
                 [x_bounds |-> <<-4, 4>>, y_bounds |-> <<-2, 2>>,
                  resolution |-> <<3, 2>>]]
    /\ init = [p \in PainterIds |-> [c \in Cells(<<3, 2>>) |-> NoColor]]
    /\ grid = init
    /\ hist = [p \in PainterIds |-> <<>>]
    /\ pc = "idle"
    /\ cur = 1
    /\ self = MapDefault
    /\ iter = <<>>
    /\ before = init[1]
    /\ calls = <<>>
    /\ ValueInit

NextValues ==
    \/ \E s \in Names : FromStr(s)
    \/ \E t \in MapResolution : ToString(t)
    \/ ToStringParsed
    \/ Reparse
    \/ ResolutionDefault
    \/ NewDefault
    \/ \E t \in MapResolution : NewWithResolution(t)

SpecValues == InitValues /\ [][NextValues]_vars

(***************************************************************************)
(* Properties                                                              *)
(***************************************************************************)
IsGetPoint(e) == e.op = "get_point"
IsPaint(e) == e.op = "paint"
\* The points a draw handed to get_point, in call order.
Visited(cs) ==
    LET gp == SelectSeq(cs, IsGetPoint)
    IN  [k \in 1 .. Len(gp) |-> gp[k].at]
NumPaints(cs) == Len(SelectSeq(cs, IsPaint))
PaintedCells(g) == {c \in DOMAIN g : g[c] # NoColor}
Blank(g) == \A c \in DOMAIN g : g[c] = NoColor
\* The completed draws: painter and position in its history.
Draws == {d \in PainterIds \X (1 .. MaxDraws + 1) : d[2] <= Len(hist[d[1]])}
Entry(d) == hist[d[1]][d[2]]
\* The points of a table that a painter maps to the cell.
Sources(p, t, c) ==
    {j \in 1 .. Len(data(t)) : get_point(p, data(t)[j][1], data(t)[j][2]) = Some(c)}
SubRect(a, b) ==
    /\ b.x_bounds[1] <= a.x_bounds[1] /\ a.x_bounds[2] <= b.x_bounds[2]
    /\ b.y_bounds[1] <= a.y_bounds[1] /\ a.y_bounds[2] <= b.y_bounds[2]
    /\ a.resolution = b.resolution

\* Each get_point call returns the painter's answer and is followed by a
\* paint of that cell in the map's colour exactly when the answer is a cell;
\* each paint call follows such a get_point call.
CallsWellFormed(cs, p, m) ==
    \A k \in 1 .. Len(cs) :
       /\ cs[k].op = "get_point" =>
             /\ cs[k].ret = get_point(p, cs[k].at[1], cs[k].at[2])
             /\ IF cs[k].ret = None
                THEN k = Len(cs) \/ cs[k + 1].op # "paint"
                ELSE k < Len(cs) /\ cs[k + 1] = Paint(cs[k].ret[1], m.color)
       /\ cs[k].op = "paint" =>
             /\ k > 1
             /\ cs[k - 1].op = "get_point"
             /\ cs[k - 1].ret = Some(cs[k].at)

\* C1: draw hands every point of the table selected by self.resolution to
\* get_point exactly once and in table order; it paints a point, in
\* self.color, exactly when get_point returned a cell; a point get_point
\* declines is skipped and the loop goes on to the end of the table.
C1_DrawVisitsEveryPointInOrder ==
    /\ pc = "draw" =>
          /\ Visited(calls) \o iter = data(self.resolution)
          /\ CallsWellFormed(calls, cfg[cur], self)
    /\ \A d \in Draws :
          /\ Visited(Entry(d).calls) = data(Entry(d).shape.resolution)
          /\ CallsWellFormed(Entry(d).calls, cfg[d[1]], Entry(d).shape)

\* A finished draw that skipped a point and painted a later one.
C1_Witness ==
    \E d \in Draws :
       \E j, k \in 1 .. Len(Entry(d).calls) :
          /\ j < k
          /\ Entry(d).calls[j].op = "get_point"
          /\ Entry(d).calls[j].ret = None
          /\ Entry(d).calls[k].op = "paint"

\* C2: a second draw of the same Map onto the same painter leaves the
\* surface as the first draw left it.
C2_DrawIdempotent ==
    \A p \in PainterIds :
       \A k \in 1 .. Len(hist[p]) - 1 :
          hist[p][k].shape = hist[p][k + 1].shape =>
             hist[p][k + 1].after = hist[p][k].after

\* The same Map drawn twice, the first draw having changed a surface that
\* already held content.
C2_Witness ==
    \E p \in PainterIds :
       \E k \in 1 .. Len(hist[p]) - 1 :
          /\ hist[p][k].shape = hist[p][k + 1].shape
          /\ hist[p][k].after # hist[p][k].before
          /\ ~Blank(hist[p][k].before)

\* Every paint call is for a point inside the bounds, and a cell painted on
\* a blank surface is the image of a table point inside the bounds.
OutsideNeverPainted ==
    /\ \A d \in Draws :
          \A k \in 1 .. Len(Entry(d).calls) :
             Entry(d).calls[k].op = "paint" =>
                /\ k > 1
                /\ Entry(d).calls[k - 1].op = "get_point"
                /\ InBounds(cfg[d[1]], Entry(d).calls[k - 1].at[1],
                            Entry(d).calls[k - 1].at[2])
    /\ \A d \in Draws :
          Blank(Entry(d).before) =>
             \A c \in PaintedCells(Entry(d).after) :
                \E j \in Sources(cfg[d[1]], Entry(d).shape.resolution, c) :
                   InBounds(cfg[d[1]], data(Entry(d).shape.resolution)[j][1],
                            data(Entry(d).shape.resolution)[j][2])

\* Painter 1's bounds are a sub-rectangle of painter 2's, the screens are of
\* one size, both surfaces were blank and each has received the same Map once.
Shrunk ==
    /\ pc = "idle"
    /\ Len(hist[1]) = 1
    /\ Len(hist[2]) = 1
    /\ hist[1][1].shape = hist[2][1].shape
    /\ Blank(init[1])
    /\ Blank(init[2])
    /\ SubRect(cfg[1], cfg[2])

\* C3 as stated: points outside the bounds are never painted, and under
\* shrunk bounds the number of painted cells does not grow.
C3_PaintedCellsNeverGrow ==
    /\ OutsideNeverPainted
    /\ Shrunk =>
          Cardinality(PaintedCells(grid[1])) <= Cardinality(PaintedCells(grid[2]))

\* C3, amended: points outside the bounds are never painted, and under
\* shrunk bounds the number of table points painted does not grow (the
\* number of distinct cells they land on may).
C3_PaintedPointsNeverGrow ==
    /\ OutsideNeverPainted
    /\ Shrunk => NumPaints(hist[1][1].calls) <= NumPaints(hist[2][1].calls)

\* Strictly smaller bounds that dropped a point the larger bounds painted.
C3_Witness ==
    /\ Shrunk
    /\ cfg[1] # cfg[2]
    /\ NumPaints(hist[1][1].calls) < NumPaints(hist[2][1].calls)
    /\ NumPaints(hist[1][1].calls) > 0

\* C4: parse returns Low for "Low", High for "High", and the
\* variant-not-found error, never a value, for every other string.
C4_ParseRejectsOtherNames ==
    fromStr # None =>
       /\ fromStr[1].arg = "Low" => fromStr[1].ret = Ok(Low)
       /\ fromStr[1].arg = "High" => fromStr[1].ret = Ok(High)
       /\ fromStr[1].arg \notin {"Low", "High"} =>
             fromStr[1].ret = Err("VariantNotFound")

\* The empty string has been parsed.
C4_Witness == fromStr # None /\ fromStr[1].arg = "" /\ fromStr[1].ret.tag = "Err"

\* C5: to_string gives "Low" for Low and "High" for High, parsing the
\* displayed name gives the tier back, and the name of a parsed tier parses
\* to what the first parse returned.
C5_DisplayParseRoundTrip ==
    /\ toStr # None =>
          /\ toStr[1].arg = Low => toStr[1].ret = "Low"
          /\ toStr[1].arg = High => toStr[1].ret = "High"
    /\ back # None =>
          /\ back[1].ret = Ok(back[1].shown.arg)
          /\ back[1].shown.from # None =>
                back[1].ret = back[1].shown.from[1].ret

\* A name was parsed, displayed and parsed again.
C5_Witness ==
    /\ back # None
    /\ back[1].shown.from # None
    /\ back[1].shown.from[1].arg = "High"

\* Two finished draws of one tier visited the same points in the same order.
SameEnumeration ==
    \A d, e \in Draws :
       Entry(d).shape.resolution = Entry(e).shape.resolution =>
          Visited(Entry(d).calls) = Visited(Entry(e).calls)

\* C6: each tier has a non-empty table, High's longer than Low's; every
\* draw of a tier enumerates the same sequence, whatever was drawn before
\* and on whichever painter; and a running draw leaves its Map as it is.
C6_DatasetTotalAndStable ==
    /\ [](/\ \A t \in MapResolution : Len(data(t)) > 0
          /\ Len(data(High)) > Len(data(Low))
          /\ pc = "draw" => Len(Visited(calls)) + Len(iter) = Len(data(self.resolution))
          /\ SameEnumeration)
    /\ [][pc = "draw" => self' = self]_vars

\* Both tiers have been drawn, one of them twice on painters that differ.
C6_Witness ==
    /\ \E d, e \in Draws :
          /\ d[1] # e[1]
          /\ cfg[d[1]] # cfg[e[1]]
          /\ Entry(d).shape.resolution = Entry(e).shape.resolution
    /\ \E d, e \in Draws :
          Entry(d).shape.resolution # Entry(e).shape.resolution

Settled(p) == IF hist[p] = <<>> THEN init[p] ELSE hist[p][Len(hist[p])].after

\* C8: after a draw, a cell some table point maps to holds self.color
\* whatever it held, every other cell holds what it held, and the surface
\* of the painter that was not borrowed is untouched.
C8_DrawFrame ==
    /\ \A d \in Draws :
          /\ DOMAIN Entry(d).after = DOMAIN Entry(d).before
          /\ \A c \in DOMAIN Entry(d).before :
                Entry(d).after[c] =
                   IF Sources(cfg[d[1]], Entry(d).shape.resolution, c) # {}
                   THEN Entry(d).shape.color
                   ELSE Entry(d).before[c]
    /\ \A p \in PainterIds : (pc = "idle" \/ p # cur) => grid[p] = Settled(p)

\* A draw that overwrote a cell of another colour, painted one cell from
\* two points, and left a cell with content alone.
C8_Witness ==
    \E d \in Draws :
       /\ \E c \in DOMAIN Entry(d).before :
             /\ Cardinality(Sources(cfg[d[1]], Entry(d).shape.resolution, c)) > 1
             /\ Entry(d).before[c] \notin {NoColor, Entry(d).shape.color}
       /\ \E c \in DOMAIN Entry(d).before :
             /\ Sources(cfg[d[1]], Entry(d).shape.resolution, c) = {}
             /\ Entry(d).before[c] # NoColor

\* C9: Map::default() is resolution Low and colour Reset, and
\* MapResolution::default() is Low.
C9_Defaults ==
    /\ (map # None /\ map[1].how = "default") =>
          map[1].value = [resolution |-> Low, color |-> "Reset"]
    /\ (map # None /\ map[1].how = "update") =>
          map[1].value.color = "Reset"
    /\ res # None => res[1].value = Low

\* Both defaults have been constructed.
C9_Witness == map # None /\ map[1].how = "default" /\ res # None

\* C10: drawing Map A and then Map B of the same resolution leaves the
\* surface that drawing B alone leaves, from the same surface and under the
\* same configuration, whatever the two colours.
C10_SecondDrawCoversFirst ==
    \A k \in 1 .. Len(hist[1]) - 1 :
       ( /\ Len(hist[2]) >= 1
         /\ cfg[1] = cfg[2]
         /\ hist[1][k].before = hist[2][1].before
         /\ hist[1][k].shape.resolution = hist[1][k + 1].shape.resolution
         /\ hist[1][k + 1].shape = hist[2][1].shape )
       => hist[1][k + 1].after = hist[2][1].after

\* A then B in another colour on painter 1, B alone on painter 2.
C10_Witness ==
    \E k \in 1 .. Len(hist[1]) - 1 :
       /\ Len(hist[2]) >= 1
       /\ cfg[1] = cfg[2]
       /\ hist[1][k].before = hist[2][1].before
       /\ hist[1][k].shape.resolution = hist[1][k + 1].shape.resolution
       /\ hist[1][k + 1].shape = hist[2][1].shape
       /\ hist[1][k].shape.color # hist[1][k + 1].shape.color
       /\ hist[1][k].after # hist[1][k].before

====
